---- MODULE Spec2Model ----
(***************************************************************************)
(* State-machine model of src/ledcontrol/ledcontrol.ino (lines 1-658): the *)
(* single-button LED controller with a TCS34725 ambient colour sensor.     *)
(*                                                                         *)
(* Time.  The sketch reads millis() and only ever uses differences         *)
(* millis() - lastDebounceTime[BUTTON], millis() - pushTime and            *)
(* millis() - dynTime (unsigned, so the difference is the elapsed time).   *)
(* The model keeps these three differences as its clocks, saturated above  *)
(* the largest value they are compared with.  Time passes in Tick (between *)
(* two loop() iterations) and in the blocking delay()s of the sketch.      *)
(*                                                                         *)
(* Environment.  Spec drives the sketch with a button that does not bounce *)
(* and a sensor that raises sample-ready interrupts; SpecBounce with a     *)
(* button whose level changes at any moment and a silent sensor.           *)
(*                                                                         *)
(* Arithmetic.  double values are modelled exactly as rationals where the  *)
(* code's integers make that possible (hsv2rgb, interp on bytes) and as    *)
(* fixed-point numbers with Scale units per 1.0 in the sensor pipeline.    *)
(* switchLoop (the two auxiliary switches driving the sensor LED) touches  *)
(* no state modelled here and is left out.                                 *)
(***************************************************************************)
EXTENDS Integers, Sequences, FiniteSets, TLC

VARIABLES
    pc,               \* position of the sketch: see PcValues
    timer,            \* milliseconds of the blocking delay()s in progress
    changed,          \* buttonLoop's local, kept across the delay at line 318
    raw,              \* level of pinButton (environment); TRUE is HIGH
    lastReading,      \* lastReading[BUTTON]
    inputState,       \* inputState[BUTTON]
    debounceElapsed,  \* millis() - lastDebounceTime[BUTTON]
    pushElapsed,      \* millis() - pushTime
    mode, adjustIndex, hue, sat, brightness,
    currentColor, adjustedColor, ambientColor,
    strip,            \* colour last written to the PWM pins by setColorRGB
    tcsOn,            \* sensor enabled with its interrupt (tcsEnable/tcsDisable)
    intPending,       \* sensor INT line asserted (low) until clearInterrupt
    colorRead,        \* volatile flag set by isr
    sample,           \* the globals red, green, blue, clear
    maxClear,
    dynElapsed,       \* millis() - dynTime
    ambientLuminance,
    filt,             \* y0 of ambientRed/Green/Blue/Clear and luminance
    cor,              \* corR, corG, corB
    \* history variables: the sketch reads none of them; the environment
    \* reads rawElapsed, and nSweep and nSamples bound the behaviours
    rawElapsed,       \* time since the raw level last changed
    nSweep,           \* hold steps taken so far
    nSamples,         \* sample-ready notifications raised so far
    ev,               \* what the buttonLoop call of this loop() iteration did
    pulse,            \* progress of a single pulse that began at rest
    committed,        \* a transition was committed since the raw level changed
    pressSwept,       \* a hold step ran since the poll that committed Pressed,
                      \* that poll included
    \* the windowed filter of the sketch's variants, which the sketch of
    \* lines 1-658 replaced by LowPassFilter
    movingMean,       \* one MovingMean object
    added,            \* history: the values passed to its addValue so far
    \* rgb2hsv, which the sketch defines and never calls
    rgbIn,            \* the arguments r, g, b of its last call
    hsvOut            \* what that call left in h, s, v

vars == <<pc, timer, changed, raw, lastReading, inputState, debounceElapsed,
          pushElapsed, mode, adjustIndex, hue, sat, brightness, currentColor,
          adjustedColor, ambientColor, strip, tcsOn, intPending, colorRead,
          sample, maxClear, dynElapsed, ambientLuminance, filt, cor, rawElapsed,
          nSweep, nSamples, ev, pulse, committed, pressSwept, movingMean,
          added, rgbIn, hsvOut>>

----------------------------------------------------------------------------
(* Constants of the sketch *)

HIGH == TRUE
LOW == FALSE

STATIC == 0
AMBIENT == 1
N_MODES == 2

InitHue == 256
InitSat == 66
InitBrightness == 192
sweepSeconds == 16
\* the divisors of hue at lines 311 and 217
HoldHueDivisor == 359
InitHueDivisor == 360
debounceDelay == 50
HoldThreshold == 1000
ShortThreshold == 300
DecayInterval == 2000
\* the delays of fluorescentFlicker (lines 497-507)
StartupMillis == 20 * 2 + 10 * 2 + 80 + 20 * 2 + 10 * 2 + 300 + 100 * 3 + 1000
AvgR == 24
AvgG == 37
AvgB == 39

\* fixed point: Scale units are 1.0
Scale == 100 * 100

\* the 0.13 of line 435
LowFloor == 13 * (Scale \div 100)

(* Bounds of the model *)

\* hold steps in a behaviour
MaxSweep == 2
\* sample-ready notifications in a behaviour
MaxSamples == 1
\* millis() - pushTime is followed exactly below PushCap
PushCap == 1001
\* hold steps in one continuous hold
SweepSteps == 360
\* samples of the sensor in one stay in ambient mode
MaxBurst == 3
\* calls of MovingMean::addValue in a behaviour
MaxAdded == 6

\* the two steps in which time passes between iterations of loop()
FineTick == debounceDelay
CoarseTick == 5 * FineTick

----------------------------------------------------------------------------
(* Auxiliary functions *)

Sat(x, cap) == IF x > cap THEN cap ELSE x

Max(a, b) == IF a > b THEN a ELSE b

Clamp(x, a, b) == IF x < a THEN a ELSE IF x > b THEN b ELSE x

\* C++ integer conversion of a/b for b > 0: truncation toward zero
TruncDiv(a, b) == IF a >= 0 THEN a \div b ELSE -((-a) \div b)

\* interp<byte,double>(a, b, t) with t = tn/td: the double a + t*(b - a)
\* converted to byte
Interp(a, b, tn, td) ==
    IF tn * 10000 < td THEN a
    ELSE IF tn * 10000 > 9999 * td THEN b
    ELSE TruncDiv(a * td + tn * (b - a), td)

\* interp<double,double>(a, b, t) on fixed-point a, b and t = tn/td
InterpFx(a, b, tn, td) ==
    IF tn * 10000 < td THEN a
    ELSE IF tn * 10000 > 9999 * td THEN b
    ELSE a + TruncDiv(tn * (b - a), td)

RGB(r, g, b) == [r |-> r, g |-> g, b |-> b]

Black == RGB(0, 0, 0)

InterpColorRGB(c1, c2, tn, td) ==
    RGB(Interp(c1.r, c2.r, tn, td), Interp(c1.g, c2.g, tn, td),
        Interp(c1.b, c2.b, tn, td))

\* fadeToRGB: the colour shown after steps i, i+1, ..., steps-1 of the loop
RECURSIVE FadeFrom(_, _, _, _, _)
FadeFrom(cur, c, i, steps, quadratic) ==
    IF i >= steps THEN cur
    ELSE FadeFrom(InterpColorRGB(cur, c,
                                 IF quadratic THEN (i + 1) * (i + 1) ELSE i + 1,
                                 IF quadratic THEN steps * steps ELSE steps),
                  c, i + 1, steps, quadratic)

\* fadeToRGB leaving its loop after the first step
FadeToRGBFirstStep(cur, c, steps, quadratic) ==
    IF steps = 0 THEN cur
    ELSE InterpColorRGB(cur, c, 1, IF quadratic THEN steps * steps ELSE steps)

FadeToRGB(cur, c, steps, quadratic) == FadeFrom(cur, c, 0, steps, quadratic)

\* fadeToRGB: the colours handed to applyColorRGB, path being those of the
\* steps before step i
RECURSIVE FadePathFrom(_, _, _, _, _)
FadePathFrom(path, c, i, steps, quadratic) ==
    IF i >= steps \/ Len(path) # i + 1    \* path holds i + 1 colours
    THEN path
    ELSE FadePathFrom(Append(path,
                             InterpColorRGB(path[Len(path)], c,
                                 IF quadratic THEN (i + 1) * (i + 1) ELSE i + 1,
                                 IF quadratic THEN steps * steps ELSE steps)),
                      c, i + 1, steps, quadratic)

\* the colour a fade starts from, followed by the colours it applies
FadePath(cur, c, steps, quadratic) ==
    FadePathFrom(<<cur>>, c, 0, steps, quadratic)

\* hsv2rgb without its switch, every hue taken for one of the first sector
Hsv1ToRgb255OneSector(hn, hd, s100, v255) ==
    RGB(v255, (v255 * (100 * hd - s100 * (hd - ((6 * hn) % hd)))) \div (100 * hd),
        (v255 * (100 - s100)) \div 100)

\* hsv2rgb followed by hsv1_to_rgb255 for h = hn/hd, s = s100/100, v = v255/255
Hsv1ToRgb255(hn, hd, s100, v255) ==
    LET i == (6 * hn) \div hd
        fn == (6 * hn) % hd
        v == v255
        p == (v255 * (100 - s100)) \div 100
        q == (v255 * (100 * hd - s100 * fn)) \div (100 * hd)
        t == (v255 * (100 * hd - s100 * (hd - fn))) \div (100 * hd)
        k == i % 6
    IN  IF k = 0 THEN RGB(v, t, p)
        ELSE IF k = 1 THEN RGB(q, v, p)
        ELSE IF k = 2 THEN RGB(p, v, t)
        ELSE IF k = 3 THEN RGB(p, q, v)
        ELSE IF k = 4 THEN RGB(t, p, v)
        ELSE RGB(v, p, q)

Inverse(c) == RGB(255 - c.r, 255 - c.g, 255 - c.b)

\* the feedback loop of lines 341-345 without the fade back of line 344
BlinkFadesOneWay(cur, adj, n) == FadeToRGB(cur, Inverse(adj), 10, FALSE)

\* the feedback loop of lines 341-345, n cycles starting from colour cur
RECURSIVE BlinkFades(_, _, _)
BlinkFades(cur, adj, n) ==
    IF n = 0 THEN cur
    ELSE BlinkFades(FadeToRGB(FadeToRGB(cur, Inverse(adj), 10, FALSE),
                              adj, 10, FALSE),
                    adj, n - 1)

BlinkMillis(n) == n * (10 * 8 + 10 * 5)

FadeMillis == 100 * 10

\* line 318 with the delay of the brightness sweep for every range
SweepDelayOfBrightness(range) == (1000 * sweepSeconds) \div 255

\* delay(1000. / (range / sweepSeconds)): the double converted to unsigned long
SweepDelay(range) == (1000 * sweepSeconds) \div range

----------------------------------------------------------------------------
(* Sensor pipeline, in fixed point: Scale units are 1.0 *)

\* correctColor dividing the sum by the channel alone
CorrectColorOverChannel(r, g, b) ==
    LET sum == r + g + b
    IN  [r |-> (Scale * sum) \div r, g |-> (Scale * sum) \div g,
         b |-> (Scale * sum) \div b]

\* correctColor, for averages given in hundredths
CorrectColor(r, g, b) ==
    LET sum == r + g + b
    IN  [r |-> (Scale * sum) \div (3 * r), g |-> (Scale * sum) \div (3 * g),
         b |-> (Scale * sum) \div (3 * b)]

\* LowPassFilter::update without the weights a and 1 - a
LowPassUnweighted(y0, x1) == x1 + y0

\* LowPassFilter::update with a = 0.4
LowPass(y0, x1) == (4 * x1 + 6 * y0) \div 10

\* brightness / 255.
Ceiling(bri) == (Scale * bri) \div 255

\* conversion of an in-range double to byte
ToByte(x) == x % 256

Samples ==
    { [red |-> 2, green |-> 3, blue |-> 2, clear |-> 7],
      [red |-> 1, green |-> 2, blue |-> 1, clear |-> 5] }

NoSample == [red |-> 0, green |-> 0, blue |-> 0, clear |-> 0]

\* line 392 with the channels tested against 0
ValidAboveZero(s) == s.clear > 0 /\ s.red > 0 /\ s.green > 0 /\ s.blue > 0

\* the noise gate of line 392
Valid(s) == s.clear > 0 /\ s.red > 1 /\ s.green > 1 /\ s.blue > 1

\* lines 389-425: the effect of a fresh sample s on maxClear,
\* ambientLuminance and the filters
OnSample(s, mc, al, f, bri, co) ==
    IF Valid(s)
    THEN LET mc1 == IF s.clear > mc THEN s.clear ELSE mc
             r == Clamp((s.red * co.r) \div s.clear, 0, Scale)
             g == Clamp((s.green * co.g) \div s.clear, 0, Scale)
             b == Clamp((s.blue * co.b) \div s.clear, 0, Scale)
             c == (Scale * s.clear) \div mc1
             l == LowPass(f.lum, (2126 * r + 7152 * g + 722 * b) \div 10000)
         IN  [maxClear |-> mc1, ambientLuminance |-> l,
              filt |-> [r |-> LowPass(f.r, r), g |-> LowPass(f.g, g),
                        b |-> LowPass(f.b, b), c |-> LowPass(f.c, c),
                        lum |-> l]]
    ELSE LET al1 == InterpFx(al, Ceiling(bri), 1, 1000)
         IN  [maxClear |-> mc, ambientLuminance |-> al1,
              filt |-> [r |-> LowPass(f.r, al1), g |-> LowPass(f.g, al1),
                        b |-> LowPass(f.b, al1), c |-> f.c, lum |-> f.lum]]

\* line 428 without the test of dynTime
DecaysAtOnce(s, mc, de) == s.clear < mc

\* lines 427-432: does maxClear decay in this poll
Decays(s, mc, de) == s.clear < mc /\ de > DecayInterval

\* line 435
Dyn(bri, fc) == InterpFx(LowFloor, Ceiling(bri), fc, Scale)

\* line 436
Target(f, dyn) ==
    RGB(ToByte((((f.r * dyn) \div Scale) * 255) \div Scale),
        ToByte((((f.g * dyn) \div Scale) * 255) \div Scale),
        ToByte((((f.b * dyn) \div Scale) * 255) \div Scale))

\* line 437
Blend(ac, target) == InterpColorRGB(ac, target, 88, 100)

----------------------------------------------------------------------------
(* Button *)

\* debounceInput without the restart of lines 241-244
DebounceInputNoRestart(rd, lastRd, elapsed, st) ==
    LET commit == elapsed > debounceDelay /\ rd # st
    IN  [elapsed |-> elapsed, state |-> IF commit THEN rd ELSE st,
         changed |-> commit]

\* debounceInput (lines 235-258) for a reading rd: the new values of
\* millis() - lastDebounceTime, inputState and the returned flag
DebounceInput(rd, lastRd, elapsed, st) ==
    LET e1 == IF rd # lastRd THEN 0 ELSE elapsed
        commit == e1 > debounceDelay /\ rd # st
    IN  [elapsed |-> e1, state |-> IF commit THEN rd ELSE st,
         changed |-> commit]

\* line 278
IsHold(st, pe) == st = LOW /\ pe > HoldThreshold

\* line 332 with the threshold of README.md
IsShortPushReadme(held) == held < 250

\* line 332
IsShortPush(held) == held < ShortThreshold

\* line 348
IsLongPush(held) == held < HoldThreshold

\* line 337 with the modulus of a four-entry table
NextIndexOfFour(i) == (i + 1) % 4

\* line 337
NextIndex(i) == (i + 1) % 3

\* lines 202, 351 without the increment
NextModeStays(m) == m

\* lines 202, 351
NextMode(m) == (m + 1) % N_MODES

\* lines 280-309 without the wraps of lines 287-290, 296-299 and 305-308
HoldStepUnwrapped(m, ai, h, s, b) ==
    IF m = AMBIENT \/ ai = 0
    THEN [hue |-> h, sat |-> s, brightness |-> b - 1, range |-> 255]
    ELSE IF ai = 1
    THEN [hue |-> h + 1, sat |-> s, brightness |-> b, range |-> 359]
    ELSE [hue |-> h, sat |-> s - 1, brightness |-> b, range |-> 100]

\* lines 280-309 with the hue wrapping after 360 instead of 359
HoldStepHueTo360(m, ai, h, s, b) ==
    IF m = AMBIENT \/ ai = 0
    THEN [hue |-> h, sat |-> s,
          brightness |-> IF b - 1 < 0 THEN 255 ELSE b - 1, range |-> 255]
    ELSE IF ai = 1
    THEN [hue |-> IF h + 1 > 360 THEN 0 ELSE h + 1, sat |-> s,
          brightness |-> b, range |-> 359]
    ELSE [hue |-> h, sat |-> IF s - 1 < 0 THEN 100 ELSE s - 1,
          brightness |-> b, range |-> 100]

\* lines 280-309 without the mode test of line 283
HoldStepByIndex(m, ai, h, s, b) ==
    IF ai = 0
    THEN [hue |-> h, sat |-> s,
          brightness |-> IF b - 1 < 0 THEN 255 ELSE b - 1, range |-> 255]
    ELSE IF ai = 1
    THEN [hue |-> IF h + 1 > 359 THEN 0 ELSE h + 1, sat |-> s,
          brightness |-> b, range |-> 359]
    ELSE [hue |-> h, sat |-> IF s - 1 < 0 THEN 100 ELSE s - 1,
          brightness |-> b, range |-> 100]

\* lines 280-309: the parameters after one sweep step, and the range
HoldStep(m, ai, h, s, b) ==
    IF m = AMBIENT \/ ai = 0
    THEN [hue |-> h, sat |-> s,
          brightness |-> IF b - 1 < 0 THEN 255 ELSE b - 1, range |-> 255]
    ELSE IF ai = 1
    THEN [hue |-> IF h + 1 > 359 THEN 0 ELSE h + 1, sat |-> s,
          brightness |-> b, range |-> 359]
    ELSE IF ai = 2
    THEN [hue |-> h, sat |-> IF s - 1 < 0 THEN 100 ELSE s - 1,
          brightness |-> b, range |-> 100]
    ELSE [hue |-> h, sat |-> s, brightness |-> b, range |-> 100]

\* line 311
HoldColor(h, s, b) == Hsv1ToRgb255(h, HoldHueDivisor, s, b)

\* lines 218-221, 487
InitColor(h, s, b) == Hsv1ToRgb255(h, InitHueDivisor, s, b)

\* fluorescentFlicker without the fade of line 505
FluorescentFlickerDark(cur, adj) ==
    LET c1 == FadeToRGB(cur, adj, 20, FALSE)
        c2 == FadeToRGB(c1, Black, 10, TRUE)
        c3 == FadeToRGB(c2, adj, 20, FALSE)
    IN  FadeToRGB(c3, Black, 10, TRUE)

\* fluorescentFlicker: the colour shown when it returns
FluorescentFlicker(cur, adj) ==
    LET c1 == FadeToRGB(cur, adj, 20, FALSE)
        c2 == FadeToRGB(c1, Black, 10, TRUE)
        c3 == FadeToRGB(c2, adj, 20, FALSE)
        c4 == FadeToRGB(c3, Black, 10, TRUE)
    IN  FadeToRGB(c4, adj, 100, FALSE)

----------------------------------------------------------------------------
(* State *)

PcValues ==
    {"setup", "halted", "buttonLoop", "delay", "blink", "fade", "ambientLoop",
     "ambientClear"}

NoEv == [kind |-> "none", held |-> 0, swept |-> FALSE]

estimatorVars == <<sample, maxClear, dynElapsed, ambientLuminance, filt>>
paramVars == <<hue, sat, brightness>>

meanVars == <<movingMean, added>>
hsvVars == <<rgbIn, hsvOut>>

\* rgb2hsv was not called
NoHsv == [h |-> [num |-> 0, den |-> 1], s |-> [num |-> 0, den |-> 1],
          v |-> [num |-> 0, den |-> 1], called |-> FALSE]

windowSize == 4

\* a MovingMean object of static storage as its initializers leave it; mean
\* is kept as the fraction num / den, 0. being 0 / 1
NewMovingMean ==
    [mmValues |-> [i \in 0..(windowSize - 1) |-> 0], mmSum |-> 0,
     mmIndex |-> 0, mmSize |-> 0, mean |-> [num |-> 0, den |-> 1]]

Min(a, b) == IF a < b THEN a ELSE b

\* addValue that adds val without taking the replaced value out of mmSum
AddValueNoEvict(m, val) ==
    LET size == Min(m.mmSize + 1, windowSize)
    IN  [mmValues |-> [m.mmValues EXCEPT ![m.mmIndex] = val],
         mmSum |-> m.mmSum + val,
         mmIndex |-> (m.mmIndex + 1) % windowSize,
         mmSize |-> size,
         mean |-> [num |-> m.mmSum + val, den |-> size]]

\* MovingMean::addValue(val) on the object m: the object afterwards, its
\* field mean being the value returned
AddValue(m, val) ==
    LET sum == m.mmSum - m.mmValues[m.mmIndex] + val
        size == Min(m.mmSize + 1, windowSize)
    IN  [mmValues |-> [m.mmValues EXCEPT ![m.mmIndex] = val],
         mmSum |-> sum,
         mmIndex |-> (m.mmIndex + 1) % windowSize,
         mmSize |-> size,
         mean |-> [num |-> sum, den |-> size]]

\* rgb2hsv's epsilon, 0.001, in the fixed-point unit
Epsilon == Scale \div 1000

\* abs(x) of Arduino.h
Abs(x) == IF x > 0 THEN x ELSE -x

\* clamp(f, 0., 1.) of the fraction f, whose denominator is positive
ClampUnit(f) ==
    IF f.num < 0 THEN [num |-> 0, den |-> 1]
    ELSE IF f.num > f.den THEN [num |-> 1, den |-> 1]
    ELSE f

\* rgb2hsv without the test of line 611
Rgb2HsvUntested(r, g, b) ==
    LET maxVal == Max(Max(r, g), b)
        minVal == Min(Min(r, g), b)
        delta == maxVal - minVal
        deg == IF Abs(r - maxVal) < Epsilon
               THEN [num |-> 60 * (g - b), den |-> delta]
               ELSE IF Abs(g - maxVal) < Epsilon
               THEN [num |-> 60 * (2 * delta + (b - r)), den |-> delta]
               ELSE [num |-> 60 * (4 * delta + (r - g)), den |-> delta]
        pos == IF deg.num < 0
               THEN [num |-> deg.num + 360 * deg.den, den |-> deg.den]
               ELSE deg
        s == IF maxVal < Epsilon
             THEN [num |-> 0, den |-> 1]
             ELSE [num |-> maxVal - minVal, den |-> maxVal]
    IN  [h |-> ClampUnit([num |-> pos.num, den |-> 360 * pos.den]),
         s |-> ClampUnit(s),
         v |-> ClampUnit([num |-> maxVal, den |-> Scale]),
         called |-> TRUE]

\* rgb2hsv(r, g, b, h, s, v) for r, g, b in the fixed-point unit: h, s, v
\* as exact fractions num / den
Rgb2Hsv(r, g, b) ==
    LET maxVal == Max(Max(r, g), b)
        minVal == Min(Min(r, g), b)
        delta == maxVal - minVal
        \* lines 611-626: h in degrees
        deg == IF Abs(delta) < Epsilon
               THEN [num |-> 0, den |-> 1]
               ELSE IF Abs(r - maxVal) < Epsilon
               THEN [num |-> 60 * (g - b), den |-> delta]
               ELSE IF Abs(g - maxVal) < Epsilon
               THEN [num |-> 60 * (2 * delta + (b - r)), den |-> delta]
               ELSE IF Abs(b - maxVal) < Epsilon
               THEN [num |-> 60 * (4 * delta + (r - g)), den |-> delta]
               ELSE [num |-> 0, den |-> 1]
        \* lines 628-631
        pos == IF deg.num < 0
               THEN [num |-> deg.num + 360 * deg.den, den |-> deg.den]
               ELSE deg
        \* lines 633-640
        s == IF maxVal < Epsilon
             THEN [num |-> 0, den |-> 1]
             ELSE [num |-> maxVal - minVal, den |-> maxVal]
    IN  [h |-> ClampUnit([num |-> pos.num, den |-> 360 * pos.den]),
         s |-> ClampUnit(s),
         v |-> ClampUnit([num |-> maxVal, den |-> Scale]),
         called |-> TRUE]

\* the globals as their initializers leave them, before setup() runs
Init ==
    /\ pc = "setup"
    /\ timer = 0
    /\ changed = FALSE
    /\ raw = HIGH
    /\ lastReading = FALSE
    /\ inputState = FALSE
    /\ debounceElapsed = 0
    /\ pushElapsed = 0
    /\ mode = STATIC
    /\ adjustIndex = 0
    /\ hue = InitHue
    /\ sat = InitSat
    /\ brightness = InitBrightness
    /\ currentColor = Black
    /\ adjustedColor = Black
    /\ ambientColor = Black
    /\ strip = Black
    /\ tcsOn = FALSE
    /\ intPending = FALSE
    /\ colorRead = FALSE
    /\ sample = NoSample
    /\ maxClear = 1
    /\ dynElapsed = 0
    /\ ambientLuminance = Ceiling(InitBrightness)
    /\ filt = [r |-> 0, g |-> 0, b |-> 0, c |-> 0, lum |-> 0]
    /\ cor = [r |-> Scale, g |-> Scale, b |-> Scale]
    /\ rawElapsed = 0
    /\ nSweep = 0
    /\ nSamples = 0
    /\ ev = NoEv
    /\ pulse = "none"
    /\ committed = FALSE
    /\ pressSwept = FALSE
    /\ movingMean = NewMovingMean
    /\ added = <<>>
    /\ rgbIn = <<0, 0, 0>>
    /\ hsvOut = NoHsv

\* the three clocks and the history clock after d more milliseconds
DebounceAfter(d) == Sat(debounceElapsed + d, debounceDelay + 1)
PushAfter(d) == Sat(pushElapsed + d, PushCap)
DynAfter(d) == Sat(dynElapsed + d, DecayInterval + 1)
RawAfter(d) == Sat(rawElapsed + d, debounceDelay + 1)

----------------------------------------------------------------------------
(* Environment *)

\* the level of the button pin changes, at any moment; a level lasts, so it
\* does not change twice at the same instant
RawChange ==
    /\ pc = "setup" \/ rawElapsed > 0
    /\ raw' = ~raw
    /\ rawElapsed' = 0
    /\ committed' = FALSE
    /\ pulse' = IF pulse = "seen" /\ rawElapsed < debounceDelay
                THEN "reverted"
                ELSE IF raw = lastReading /\ raw = inputState /\ pc # "setup"
                THEN "up"
                ELSE "none"
    /\ UNCHANGED <<pc, timer, changed, lastReading, inputState,
                   debounceElapsed, pushElapsed, mode, adjustIndex,
                   paramVars, currentColor, adjustedColor, ambientColor,
                   strip, tcsOn, intPending, colorRead, estimatorVars, cor,
                   nSweep, nSamples, ev, pressSwept>>
    /\ UNCHANGED <<meanVars, hsvVars>>

\* the button is pressed or let go once the debouncer has settled on the
\* level before: a change of level without contact bounce
CleanChange ==
    /\ raw = inputState
    /\ lastReading = inputState
    /\ RawChange

\* an iteration of loop() started now would change nothing
Idle ==
    /\ raw = lastReading
    /\ ~DebounceInput(raw, lastReading, debounceElapsed, inputState).changed
    /\ ~IsHold(inputState, pushElapsed)
    /\ mode = AMBIENT =>
          /\ ~colorRead
          /\ ~Decays(sample, maxClear, dynElapsed)
          /\ Blend(ambientColor, Target(filt, Dyn(brightness, filt.c)))
                = ambientColor

\* loop() runs again as soon as it returns, so time is let pass between two
\* of its iterations only when the next one has nothing to do: FineTick or
\* CoarseTick milliseconds at once, FineTick in static mode only, where the
\* decay clock is not read
Tick ==
    /\ pc = "buttonLoop"
    /\ Idle
    /\ \E d \in {FineTick, CoarseTick} :
          /\ d = FineTick => mode = STATIC
          /\ debounceElapsed' = DebounceAfter(d)
          /\ pushElapsed' = PushAfter(d)
          /\ dynElapsed' = DynAfter(d)
          /\ rawElapsed' = RawAfter(d)
    /\ UNCHANGED <<pc, timer, changed, raw, lastReading, inputState, mode,
                   adjustIndex, paramVars, currentColor, adjustedColor,
                   ambientColor, strip, tcsOn, intPending, colorRead, sample,
                   maxClear, ambientLuminance, filt, cor, nSweep, nSamples,
                   ev, pulse, committed, pressSwept>>
    /\ UNCHANGED <<meanVars, hsvVars>>

\* isr without the assignment of line 464
IsrIdle == UNCHANGED colorRead

\* isr (lines 461-465)
Isr == colorRead' = TRUE

\* the enabled sensor finishes an integration cycle: its INT line falls,
\* which runs isr
SensorCycle(limit) ==
    /\ tcsOn
    /\ ~intPending
    /\ nSamples < limit
    /\ intPending' = TRUE
    /\ nSamples' = nSamples + 1
    /\ Isr
    /\ UNCHANGED <<pc, timer, changed, raw, lastReading, inputState,
                   debounceElapsed, pushElapsed, mode, adjustIndex,
                   paramVars, currentColor, adjustedColor, ambientColor,
                   strip, tcsOn, estimatorVars, cor, rawElapsed, nSweep, ev,
                   pulse, committed, pressSwept>>
    /\ UNCHANGED <<meanVars, hsvVars>>

SensorReady == SensorCycle(MaxSamples)

----------------------------------------------------------------------------
(* setup() *)

Setup ==
    /\ pc = "setup"
    /\ \E ok \in BOOLEAN :
          IF ~ok
          THEN /\ pc' = "halted"
               /\ UNCHANGED <<mode, tcsOn, cor, adjustedColor, ambientColor,
                              filt, debounceElapsed, pushElapsed, dynElapsed,
                              rawElapsed>>
               /\ currentColor' = Black
          ELSE /\ pc' = "buttonLoop"
               /\ mode' = IF raw = LOW THEN NextMode(mode) ELSE mode
               /\ tcsOn' = (mode' = AMBIENT)
               /\ cor' = CorrectColor(AvgR, AvgG, AvgB)
               /\ adjustedColor' = InitColor(hue, sat, brightness)
               /\ ambientColor' = adjustedColor'
               /\ filt' = [r |-> (Scale * adjustedColor'.r) \div 255,
                           g |-> (Scale * adjustedColor'.g) \div 255,
                           b |-> (Scale * adjustedColor'.b) \div 255,
                           c |-> filt.c, lum |-> Ceiling(brightness)]
               /\ currentColor' = FluorescentFlicker(Black, adjustedColor')
               /\ debounceElapsed' = DebounceAfter(StartupMillis)
               /\ pushElapsed' = PushAfter(StartupMillis)
               /\ dynElapsed' = DynAfter(StartupMillis)
               /\ rawElapsed' = RawAfter(StartupMillis)
    /\ strip' = currentColor'
    /\ lastReading' = HIGH
    /\ inputState' = HIGH
    /\ colorRead' = FALSE
    /\ intPending' = FALSE
    /\ UNCHANGED <<timer, changed, raw, adjustIndex, paramVars, sample,
                   maxClear, ambientLuminance, nSweep, nSamples, ev, pulse,
                   committed, pressSwept>>
    /\ UNCHANGED <<meanVars, hsvVars>>

\* lines 194-196 left behind: loop() is entered although the sensor failed
HaltLeft ==
    /\ pc = "halted"
    /\ pc' = "buttonLoop"
    /\ UNCHANGED <<timer, changed, raw, lastReading, inputState,
                   debounceElapsed, pushElapsed, mode, adjustIndex,
                   paramVars, currentColor, adjustedColor, ambientColor,
                   strip, tcsOn, intPending, colorRead, estimatorVars, cor,
                   rawElapsed, nSweep, nSamples, ev, pulse, committed,
                   pressSwept>>
    /\ UNCHANGED <<meanVars, hsvVars>>

\* lines 194-196: the empty loop setup() never leaves; time goes by
Halt ==
    /\ pc = "halted"
    /\ debounceElapsed' = DebounceAfter(CoarseTick)
    /\ pushElapsed' = PushAfter(CoarseTick)
    /\ dynElapsed' = DynAfter(CoarseTick)
    /\ rawElapsed' = RawAfter(CoarseTick)
    /\ UNCHANGED <<pc, timer, changed, raw, lastReading, inputState, mode,
                   adjustIndex, paramVars, currentColor, adjustedColor,
                   ambientColor, strip, tcsOn, intPending, colorRead, sample,
                   maxClear, ambientLuminance, filt, cor, nSweep, nSamples,
                   ev, pulse, committed, pressSwept>>
    /\ UNCHANGED <<meanVars, hsvVars>>

----------------------------------------------------------------------------
(* Colour driver and sensor switches *)

\* applyColorRGB without the call of setColorRGB at line 535
ApplyColorRGBUnwritten(c) == currentColor' = c /\ UNCHANGED strip

\* applyColorRGB (lines 532-536)
ApplyColorRGB(c) == currentColor' = c /\ strip' = c

\* tcsEnable without tcs.enable() and tcs.setInterrupt(true)
TcsEnableFlagOnly == colorRead' = FALSE /\ UNCHANGED <<tcsOn, intPending>>

\* tcsEnable (lines 443-451)
TcsEnable == colorRead' = FALSE /\ tcsOn' = TRUE /\ UNCHANGED intPending

\* tcsDisable without the assignment of line 458
TcsDisableFlagLeft ==
    tcsOn' = FALSE /\ intPending' = FALSE /\ UNCHANGED colorRead

\* tcsDisable (lines 453-459)
TcsDisable == tcsOn' = FALSE /\ intPending' = FALSE /\ colorRead' = FALSE

----------------------------------------------------------------------------
(* buttonLoop() *)

\* lines 321-365: what buttonLoop does with the debouncer's flag ch, the
\* debounced state st and pe = millis() - pushTime, up to its first fade
ButtonEvent(ch, st, pe) ==
    IF ~ch
    THEN /\ pc' = "ambientLoop" /\ timer' = 0 /\ pushElapsed' = pe
         /\ UNCHANGED <<mode, adjustIndex, tcsOn, intPending, colorRead,
                        ambientColor>>
    ELSE IF st = LOW
    THEN /\ pushElapsed' = 0
         /\ pc' = "ambientLoop" /\ timer' = 0
         /\ UNCHANGED <<mode, adjustIndex, tcsOn, intPending, colorRead,
                        ambientColor>>
    ELSE IF IsShortPush(pe)
    THEN /\ pushElapsed' = pe
         /\ IF mode = STATIC
            THEN /\ adjustIndex' = NextIndex(adjustIndex)
                 /\ pc' = "blink"
                 /\ timer' = BlinkMillis(adjustIndex' + 1)
            ELSE /\ pc' = "ambientLoop" /\ timer' = 0
                 /\ UNCHANGED adjustIndex
         /\ UNCHANGED <<mode, tcsOn, intPending, colorRead, ambientColor>>
    ELSE IF IsLongPush(pe)
    THEN /\ pushElapsed' = pe
         /\ mode' = NextMode(mode)
         /\ IF mode' = AMBIENT
            THEN /\ TcsEnable
                 /\ ambientColor' = adjustedColor
                 /\ pc' = "ambientLoop" /\ timer' = 0
            ELSE /\ TcsDisable
                 /\ pc' = "fade" /\ timer' = FadeMillis
                 /\ UNCHANGED ambientColor
         /\ UNCHANGED adjustIndex
    ELSE /\ pc' = "ambientLoop" /\ timer' = 0 /\ pushElapsed' = pe
         /\ UNCHANGED <<mode, adjustIndex, tcsOn, intPending, colorRead,
                        ambientColor>>

\* lines 273-318, and lines 321-365 when no sweep step delays them, in a
\* behaviour of at most limit hold steps
ButtonPoll(limit) ==
    /\ pc = "buttonLoop"
    /\ LET d == DebounceInput(raw, lastReading, debounceElapsed, inputState)
       IN  /\ lastReading' = raw
           /\ inputState' = d.state
           /\ debounceElapsed' = d.elapsed
           /\ pulse' = IF pulse = "up" THEN "seen" ELSE pulse
           /\ committed' = (committed \/ d.changed)
           /\ pressSwept' = IF d.changed /\ d.state = LOW
                            THEN IsHold(d.state, pushElapsed)
                            ELSE pressSwept \/ IsHold(d.state, pushElapsed)
           /\ ev' = [kind |-> IF ~d.changed THEN "none"
                              ELSE IF d.state = LOW THEN "pressed"
                              ELSE "released",
                     held |-> IF d.changed /\ d.state = HIGH
                              THEN pushElapsed ELSE 0,
                     swept |-> IsHold(d.state, pushElapsed)]
           /\ IF IsHold(d.state, pushElapsed)
              THEN LET h == HoldStep(mode, adjustIndex, hue, sat, brightness)
                   IN  /\ nSweep < limit
                       /\ nSweep' = nSweep + 1
                       /\ hue' = h.hue
                       /\ sat' = h.sat
                       /\ brightness' = h.brightness
                       /\ adjustedColor' = HoldColor(hue', sat', brightness')
                       /\ IF mode = STATIC
                          THEN ApplyColorRGB(adjustedColor')
                          ELSE UNCHANGED <<currentColor, strip>>
                       /\ pc' = "delay"
                       /\ timer' = SweepDelay(h.range)
                       /\ changed' = d.changed
                       /\ UNCHANGED <<pushElapsed, mode, adjustIndex, tcsOn,
                                      intPending, colorRead, ambientColor>>
              ELSE /\ ButtonEvent(d.changed, d.state, pushElapsed)
                   /\ UNCHANGED <<changed, paramVars, adjustedColor,
                                  currentColor, strip, nSweep>>
    /\ UNCHANGED <<raw, estimatorVars, cor, rawElapsed, nSamples>>
    /\ UNCHANGED <<meanVars, hsvVars>>

ButtonLoop == ButtonPoll(MaxSweep)

\* the delay of line 318 ends; lines 321-365
DelayDone ==
    /\ pc = "delay"
    /\ debounceElapsed' = DebounceAfter(timer)
    /\ dynElapsed' = DynAfter(timer)
    /\ rawElapsed' = RawAfter(timer)
    /\ ButtonEvent(changed, inputState, PushAfter(timer))
    /\ changed' = FALSE
    /\ UNCHANGED <<raw, lastReading, inputState, paramVars, currentColor,
                   adjustedColor, strip, sample, maxClear, ambientLuminance,
                   filt, cor, nSweep, nSamples, ev, pulse,
                   committed, pressSwept>>
    /\ UNCHANGED <<meanVars, hsvVars>>

\* the feedback fades of lines 340-345 end
BlinkDone ==
    /\ pc = "blink"
    /\ ApplyColorRGB(BlinkFades(currentColor, adjustedColor, adjustIndex + 1))
    /\ debounceElapsed' = DebounceAfter(timer)
    /\ pushElapsed' = PushAfter(timer)
    /\ dynElapsed' = DynAfter(timer)
    /\ rawElapsed' = RawAfter(timer)
    /\ pc' = "ambientLoop"
    /\ timer' = 0
    /\ UNCHANGED <<changed, raw, lastReading, inputState, mode, adjustIndex,
                   paramVars, adjustedColor, ambientColor, tcsOn, intPending,
                   colorRead, sample, maxClear, ambientLuminance, filt, cor,
                   nSweep, nSamples, ev, pulse, committed, pressSwept>>
    /\ UNCHANGED <<meanVars, hsvVars>>

\* a fade whose loop starts over instead of ending
FadeNeverDone ==
    /\ pc = "fade"
    /\ timer' = FadeMillis
    /\ UNCHANGED <<pc, changed, raw, lastReading, inputState,
                   debounceElapsed, pushElapsed, mode, adjustIndex,
                   paramVars, currentColor, adjustedColor, ambientColor,
                   strip, tcsOn, intPending, colorRead, sample, maxClear,
                   dynElapsed, ambientLuminance, filt, cor, rawElapsed,
                   nSweep, nSamples, ev, pulse, committed, pressSwept>>
    /\ UNCHANGED <<meanVars, hsvVars>>

\* the fade of line 361 ends; line 362
FadeDone ==
    /\ pc = "fade"
    /\ ApplyColorRGB(FadeToRGB(currentColor, adjustedColor, 100, FALSE))
    /\ adjustIndex' = 0
    /\ debounceElapsed' = DebounceAfter(timer)
    /\ pushElapsed' = PushAfter(timer)
    /\ dynElapsed' = DynAfter(timer)
    /\ rawElapsed' = RawAfter(timer)
    /\ pc' = "ambientLoop"
    /\ timer' = 0
    /\ UNCHANGED <<changed, raw, lastReading, inputState, mode, paramVars,
                   adjustedColor, ambientColor, tcsOn, intPending, colorRead,
                   sample, maxClear, ambientLuminance, filt, cor, nSweep,
                   nSamples, ev, pulse, committed, pressSwept>>
    /\ UNCHANGED <<meanVars, hsvVars>>

----------------------------------------------------------------------------
(* ambientLoop() *)

\* lines 389-438 for the sample s, newReading telling whether it is fresh
Estimate(s, newReading) ==
    LET o == IF newReading
             THEN OnSample(s, maxClear, ambientLuminance, filt, brightness,
                           cor)
             ELSE [maxClear |-> maxClear,
                   ambientLuminance |-> ambientLuminance, filt |-> filt]
        dec == Decays(s, o.maxClear, dynElapsed)
    IN  /\ maxClear' = IF dec THEN Max(o.maxClear - 1, 1) ELSE o.maxClear
        /\ dynElapsed' = IF dec THEN 0 ELSE dynElapsed
        /\ ambientLuminance' = o.ambientLuminance
        /\ filt' = o.filt
        /\ ambientColor' = Blend(ambientColor,
                                 Target(o.filt, Dyn(brightness, o.filt.c)))
        /\ ApplyColorRGB(ambientColor')

\* ambientLoop without the early return of lines 370-373
AmbientGateOpen(m) == FALSE

\* lines 370-373: ambientLoop returns at once
AmbientGate(m) == m # AMBIENT

\* lines 368-385, and lines 427-439 when no notification is pending
AmbientLoop ==
    /\ pc = "ambientLoop"
    /\ IF AmbientGate(mode)
       THEN /\ pc' = "buttonLoop"
            /\ UNCHANGED <<estimatorVars, ambientColor, currentColor, strip,
                           intPending>>
       ELSE IF colorRead
       THEN /\ \E s \in Samples : sample' = s
            /\ intPending' = FALSE
            /\ pc' = "ambientClear"
            /\ UNCHANGED <<maxClear, dynElapsed, ambientLuminance, filt,
                           ambientColor, currentColor, strip>>
       ELSE /\ Estimate(sample, FALSE)
            /\ pc' = "buttonLoop"
            /\ UNCHANGED <<sample, intPending>>
    /\ ev' = IF pc' = "buttonLoop" THEN NoEv ELSE ev
    /\ UNCHANGED <<timer, changed, raw, lastReading, inputState,
                   debounceElapsed, pushElapsed, mode, adjustIndex,
                   paramVars, adjustedColor, tcsOn, colorRead, cor,
                   rawElapsed, nSweep, nSamples, pulse,
                   committed, pressSwept>>
    /\ UNCHANGED <<meanVars, hsvVars>>

\* lines 387-439 after a sample was read, without the assignment of line 386
AmbientProcessFlagLeft ==
    /\ pc = "ambientClear"
    /\ Estimate(sample, TRUE)
    /\ pc' = "buttonLoop"
    /\ ev' = NoEv
    /\ UNCHANGED <<timer, changed, raw, lastReading, inputState,
                   debounceElapsed, pushElapsed, mode, adjustIndex,
                   paramVars, adjustedColor, tcsOn, intPending, sample, cor,
                   rawElapsed, nSweep, nSamples, pulse,
                   committed, pressSwept, colorRead>>
    /\ UNCHANGED <<meanVars, hsvVars>>

\* lines 386-439 after a sample was read
AmbientProcess ==
    /\ pc = "ambientClear"
    /\ colorRead' = FALSE
    /\ Estimate(sample, TRUE)
    /\ pc' = "buttonLoop"
    /\ ev' = NoEv
    /\ UNCHANGED <<timer, changed, raw, lastReading, inputState,
                   debounceElapsed, pushElapsed, mode, adjustIndex,
                   paramVars, adjustedColor, tcsOn, intPending, sample, cor,
                   rawElapsed, nSweep, nSamples, pulse,
                   committed, pressSwept>>
    /\ UNCHANGED <<meanVars, hsvVars>>

----------------------------------------------------------------------------

\* the sketch
Program ==
    \/ Setup
    \/ Halt
    \/ ButtonLoop
    \/ DelayDone
    \/ BlinkDone
    \/ FadeDone
    \/ AmbientLoop

\* the sketch, its sensor, and a button that does not bounce
Next ==
    \/ CleanChange
    \/ Tick
    \/ SensorReady
    \/ Program
    \/ AmbientProcess

Spec == Init /\ [][Next]_vars

\* the sketch with a button whose level changes at any moment, and a sensor
\* that raises no notification
NextBounce ==
    \/ RawChange
    \/ Tick
    \/ Program

SpecBounce == Init /\ [][NextBounce]_vars

\* the button has been held down for more than a second, in either mode and
\* with any parameter selected, the parameters being h, s and b and no
\* sample having been read yet
Held(h, s, b) ==
    /\ pc = "buttonLoop"
    /\ timer = 0
    /\ changed = FALSE
    /\ raw = LOW
    /\ lastReading = LOW
    /\ inputState = LOW
    /\ debounceElapsed = debounceDelay + 1
    /\ pushElapsed = PushCap
    /\ mode \in {STATIC, AMBIENT}
    /\ adjustIndex \in 0..2
    /\ hue = h
    /\ sat = s
    /\ brightness = b
    /\ adjustedColor = HoldColor(h, s, b)
    /\ currentColor = adjustedColor
    /\ ambientColor = adjustedColor
    /\ strip = adjustedColor
    /\ tcsOn = (mode = AMBIENT)
    /\ intPending = FALSE
    /\ colorRead = FALSE
    /\ sample = NoSample
    /\ maxClear = 1
    /\ dynElapsed = 0
    /\ ambientLuminance = Ceiling(b)
    /\ filt = [r |-> (Scale * adjustedColor.r) \div 255,
               g |-> (Scale * adjustedColor.g) \div 255,
               b |-> (Scale * adjustedColor.b) \div 255,
               c |-> 0, lum |-> Ceiling(b)]
    /\ cor = CorrectColor(AvgR, AvgG, AvgB)
    /\ rawElapsed = debounceDelay + 1
    /\ nSweep = 0
    /\ nSamples = 0
    /\ ev = NoEv
    /\ pulse = "none"
    /\ committed = FALSE
    /\ pressSwept = FALSE
    /\ movingMean = NewMovingMean /\ added = <<>>
    /\ rgbIn = <<0, 0, 0>> /\ hsvOut = NoHsv

\* a hold with the parameters at the values they are initialized with (as
\* they are again after full sweeps)
InitSweep == Held(InitHue, InitSat, InitBrightness)

\* buttonLoop during one continuous hold
SweepPoll == ButtonPoll(SweepSteps)

\* loop() while the button stays down
NextSweep ==
    \/ SweepPoll
    \/ DelayDone
    \/ AmbientLoop

SpecSweep == InitSweep /\ [][NextSweep]_vars

\* loop() is entered in ambient mode: the button was down when setup()
\* sampled it and was let go during the startup animation
InitAmbient ==
    /\ pc = "buttonLoop" /\ timer = 0 /\ changed = FALSE
    /\ raw = HIGH /\ lastReading = HIGH /\ inputState = HIGH
    /\ debounceElapsed = Sat(StartupMillis, debounceDelay + 1)
    /\ pushElapsed = Sat(StartupMillis, PushCap)
    /\ mode = NextMode(STATIC) /\ adjustIndex = 0
    /\ hue = InitHue /\ sat = InitSat /\ brightness = InitBrightness
    /\ adjustedColor = InitColor(InitHue, InitSat, InitBrightness)
    /\ ambientColor = adjustedColor
    /\ currentColor = FluorescentFlicker(Black, adjustedColor)
    /\ strip = currentColor
    /\ tcsOn = TRUE /\ intPending = FALSE /\ colorRead = FALSE
    /\ sample = NoSample /\ maxClear = 1
    /\ dynElapsed = Sat(StartupMillis, DecayInterval + 1)
    /\ ambientLuminance = Ceiling(InitBrightness)
    /\ filt = [r |-> (Scale * adjustedColor.r) \div 255,
               g |-> (Scale * adjustedColor.g) \div 255,
               b |-> (Scale * adjustedColor.b) \div 255,
               c |-> 0, lum |-> Ceiling(InitBrightness)]
    /\ cor = CorrectColor(AvgR, AvgG, AvgB)
    /\ rawElapsed = 0 /\ nSweep = 0 /\ nSamples = 0
    /\ ev = NoEv /\ pulse = "none" /\ committed = FALSE
    /\ pressSwept = FALSE
    /\ movingMean = NewMovingMean /\ added = <<>>
    /\ rgbIn = <<0, 0, 0>> /\ hsvOut = NoHsv

SensorBurst == SensorCycle(MaxBurst)

\* ambient mode with the button left alone
NextAmbient ==
    \/ Tick
    \/ SensorBurst
    \/ ButtonLoop
    \/ AmbientLoop
    \/ AmbientProcess

SpecAmbient == InitAmbient /\ [][NextAmbient]_vars

\* hues, saturations and brightnesses that hsv1_to_rgb255 is applied to
HueInputs == 0..359
SatInputs == {0, 1, InitSat, 100}
ValueInputs == {0, 1, InitBrightness, 255}

\* a hold in static mode entered with any of these parameters
InitHsv ==
    /\ \E h \in HueInputs, s \in SatInputs, b \in ValueInputs : Held(h, s, b)
    /\ mode = STATIC

NextHsv ==
    \/ ButtonLoop
    \/ DelayDone
    \/ AmbientLoop

SpecHsv == InitHsv /\ [][NextHsv]_vars

\* channel values and parameters of the colours a fade starts from and
\* ends at
FadeLevels == {0, 1, 128, 255}
FadeHues == {0, 120, InitHue}
FadeSats == {0, InitSat, 100}

\* the mode has just been toggled to static by a release after
\* ShortThreshold ms: the strip shows an ambient colour, line 361 is about
\* to fade it to the static colour of the parameters
InitFade ==
    /\ pc = "fade" /\ timer = FadeMillis /\ changed = FALSE
    /\ raw = HIGH /\ lastReading = HIGH /\ inputState = HIGH
    /\ debounceElapsed = 0 /\ pushElapsed = ShortThreshold
    /\ mode = STATIC /\ adjustIndex \in {0, 2}
    /\ hue \in FadeHues /\ sat \in FadeSats /\ brightness \in ValueInputs
    /\ adjustedColor = HoldColor(hue, sat, brightness)
    /\ \E x \in FadeLevels, y \in FadeLevels :
          ambientColor = RGB(x, y, 255 - x)
    /\ currentColor = ambientColor /\ strip = ambientColor
    /\ tcsOn = FALSE /\ intPending = FALSE /\ colorRead = FALSE
    /\ sample = NoSample /\ maxClear = 1 /\ dynElapsed = 0
    /\ ambientLuminance = Ceiling(brightness)
    /\ filt = [r |-> (Scale * adjustedColor.r) \div 255,
               g |-> (Scale * adjustedColor.g) \div 255,
               b |-> (Scale * adjustedColor.b) \div 255,
               c |-> 0, lum |-> Ceiling(brightness)]
    /\ cor = CorrectColor(AvgR, AvgG, AvgB)
    /\ rawElapsed = debounceDelay + 1 /\ nSweep = 0 /\ nSamples = 0
    /\ ev = [kind |-> "released", held |-> ShortThreshold, swept |-> FALSE]
    /\ pulse = "none" /\ committed = TRUE /\ pressSwept = FALSE
    /\ movingMean = NewMovingMean /\ added = <<>>
    /\ rgbIn = <<0, 0, 0>> /\ hsvOut = NoHsv

NextFade ==
    \/ FadeDone
    \/ AmbientLoop
    \/ ButtonLoop

SpecFade == InitFade /\ [][NextFade]_vars

\* the blocking operations: the delay of line 318 and the fades of lines
\* 343, 344 and 361
Blocking == {"delay", "blink", "fade"}

\* delay() inside a blocking operation that reads the button pin
BlockedTickSampling ==
    /\ pc \in Blocking
    /\ timer > CoarseTick
    /\ timer' = timer - CoarseTick
    /\ lastReading' = raw
    /\ debounceElapsed' = DebounceAfter(CoarseTick)
    /\ pushElapsed' = PushAfter(CoarseTick)
    /\ dynElapsed' = DynAfter(CoarseTick)
    /\ rawElapsed' = RawAfter(CoarseTick)
    /\ UNCHANGED <<pc, changed, raw, inputState, mode,
                   adjustIndex, paramVars, currentColor, adjustedColor,
                   ambientColor, strip, tcsOn, intPending, colorRead, sample,
                   maxClear, ambientLuminance, filt, cor, nSweep, nSamples,
                   ev, pulse, committed, pressSwept>>
    /\ UNCHANGED <<meanVars, hsvVars>>

\* CoarseTick milliseconds of a blocking operation pass (delay() at lines
\* 318 and 549); the operation has more than that left
BlockedTick ==
    /\ pc \in Blocking
    /\ timer > CoarseTick
    /\ timer' = timer - CoarseTick
    /\ debounceElapsed' = DebounceAfter(CoarseTick)
    /\ pushElapsed' = PushAfter(CoarseTick)
    /\ dynElapsed' = DynAfter(CoarseTick)
    /\ rawElapsed' = RawAfter(CoarseTick)
    /\ UNCHANGED <<pc, changed, raw, lastReading, inputState, mode,
                   adjustIndex, paramVars, currentColor, adjustedColor,
                   ambientColor, strip, tcsOn, intPending, colorRead, sample,
                   maxClear, ambientLuminance, filt, cor, nSweep, nSamples,
                   ev, pulse, committed, pressSwept>>
    /\ UNCHANGED <<meanVars, hsvVars>>

\* the toggle fade of line 361 is about to start, from red to the static
\* colour of the initial parameters
InitBlocked ==
    /\ InitFade
    /\ hue = InitHue /\ sat = InitSat /\ brightness = InitBrightness
    /\ adjustIndex = 2 /\ ambientColor = RGB(255, 0, 0)

\* the sketch from there on, with a button whose level changes at any
\* moment, also in the middle of a blocking operation
NextBlocked ==
    \/ RawChange
    \/ BlockedTick
    \/ Tick
    \/ ButtonLoop
    \/ DelayDone
    \/ BlinkDone
    \/ FadeDone
    \/ AmbientLoop

SpecBlocked == InitBlocked /\ [][NextBlocked]_vars

\* the sketch, its sensor and a button that does not bounce, with time
\* passing inside the blocking operations
NextLive ==
    \/ Next
    \/ BlockedTick

SpecLive == Init /\ [][NextLive]_vars

\* what is left of one pass of loop(): the poll, a blocking operation of
\* the poll, ambientLoop, the rest of ambientLoop after a sample was read
Rank(p) ==
    CASE p = "buttonLoop" -> 0
      [] p = "ambientClear" -> 1
      [] p = "ambientLoop" -> 2
      [] p \in Blocking -> 3
      [] OTHER -> 4

\* a step of the sketch itself
Runs == BlockedTick \/ AmbientProcess \/ Program

\* values passed to addValue
MeanInputs == {0, 1, 5}

sketchVars ==
    <<pc, timer, changed, raw, lastReading, inputState, debounceElapsed,
      pushElapsed, mode, adjustIndex, hue, sat, brightness, currentColor,
      adjustedColor, ambientColor, strip, tcsOn, intPending, colorRead,
      sample, maxClear, dynElapsed, ambientLuminance, filt, cor, rawElapsed,
      nSweep, nSamples, ev, pulse, committed, pressSwept>>

\* one call of addValue on the object
MeanAdd ==
    /\ Len(added) < MaxAdded
    /\ \E val \in MeanInputs :
          /\ movingMean' = AddValue(movingMean, val)
          /\ added' = Append(added, val)
    /\ UNCHANGED <<sketchVars, hsvVars>>

NextMean == MeanAdd

\* a MovingMean object under any sequence of addValue calls
SpecMean == Init /\ [][NextMean]_vars

\* arguments of rgb2hsv: inside and outside [0,1], equal, less than epsilon
\* apart, and far apart
RgbInputs == {-10, 0, 4, 9, 10, 5000, 9995, 10000, 12000}

\* one call of rgb2hsv
Rgb2HsvCall ==
    /\ \E r \in RgbInputs, g \in RgbInputs, b \in RgbInputs :
          /\ rgbIn' = <<r, g, b>>
          /\ hsvOut' = Rgb2Hsv(r, g, b)
    /\ UNCHANGED <<sketchVars, meanVars>>

NextRgb == Rgb2HsvCall

\* rgb2hsv under any sequence of calls
SpecRgb == Init /\ [][NextRgb]_vars

TypeOK ==
    /\ pc \in PcValues
    /\ mode \in {STATIC, AMBIENT}
    /\ adjustIndex \in 0..2

----------------------------------------------------------------------------
(* Steps of the sketch that the properties speak of *)

\* one call of buttonLoop: the poll of the button
Poll == pc = "buttonLoop" /\ pc' # "buttonLoop"

\* the poll commits the debounced Pressed, Released event
Pressed == Poll /\ inputState = HIGH /\ inputState' = LOW
Released == Poll /\ inputState = LOW /\ inputState' = HIGH

\* the poll commits a transition of the debounced state
Commit == Poll /\ inputState' # inputState

\* the poll runs the hold action of lines 280-318
Sweeps == Poll /\ pc' = "delay"

\* a Released event with heldDuration = millis() - pushTime in lo..hi-1
ReleasedWithin(lo, hi) == Released /\ lo =< pushElapsed /\ pushElapsed < hi

----------------------------------------------------------------------------
(* Properties *)

C2_ReadmeThresholds ==
    [][/\ ReleasedWithin(250, 1000) =>
            mode' # mode /\ adjustIndex' = adjustIndex
       /\ ReleasedWithin(0, 250) => mode' = mode]_vars

\* C3: the hold action runs in a poll only when the button was debounced
\* down before the poll, so that millis() - pushTime is measured from the
\* Pressed event of the press in progress, and that time exceeds 1000 ms; it
\* never runs in the poll that commits the Pressed event
C3_HoldOnlyAfterOwnPress ==
    [][Sweeps => /\ ~Pressed
                 /\ inputState = LOW /\ inputState' = LOW
                 /\ pushElapsed > 1000]_vars

\* C4: when a press is released less than 1000 ms after its Pressed event,
\* no hold step has run since, and in, the poll that committed the Pressed
\* event: the press has changed none of brightness, hue and saturation
C4_BriefPressKeepsParameters ==
    (ev.kind = "released" /\ ev.held < 1000) => ~pressSwept

\* C5: adjustIndex is always 0, 1 or 2; a short press in static mode takes
\* it 0 -> 1 -> 2 -> 0; a short press in ambient mode leaves it unchanged
C5_AdjustIndexCycles ==
    [][/\ adjustIndex \in {0, 1, 2} /\ adjustIndex' \in {0, 1, 2}
       /\ ReleasedWithin(0, 300) =>
            IF mode = STATIC
            THEN adjustIndex' = CASE adjustIndex = 0 -> 1
                                  [] adjustIndex = 1 -> 2
                                  [] OTHER -> 0
            ELSE adjustIndex' = adjustIndex]_vars

\* a short press in static mode has wrapped adjustIndex from 2 to 0
C5_Witness ==
    /\ ev.kind = "released" /\ ev.held < 300
    /\ mode = STATIC /\ pc = "blink" /\ adjustIndex = 0

\* C6: a poll commits at most one transition, to the level it reads, and at
\* most one between two changes of the raw level; after a single pulse that
\* began at rest and reverted within less than 50 ms the debounced state is
\* the level at rest (nothing was committed), and a commit during such a
\* pulse comes only after the raw level stayed for more than 50 ms; a poll
\* that has read the same level for more than 50 ms, different from the
\* debounced state, commits it
C6_Debouncer ==
    [][/\ Commit => inputState' = raw /\ ~committed
       /\ (Commit /\ pulse \in {"up", "seen"}) => rawElapsed > 50
       /\ pulse' = "reverted" => inputState' = raw'
       /\ (Poll /\ raw = lastReading /\ raw # inputState
                /\ debounceElapsed > 50) => Commit]_vars

\* a press from rest was seen, stayed for more than 50 ms and was committed
C6_Witness ==
    /\ ev.kind = "pressed" /\ pulse = "seen" /\ committed
    /\ rawElapsed > 50 /\ raw = LOW

\* C7: a poll commits a transition to a level only if the raw input has been
\* at that level, without a change, for more than 50 ms
C7_CommitNeedsStableRaw ==
    [][Commit => raw = inputState' /\ rawElapsed > 50]_vars

\* C8: a release held 300 ms to less than 1000 ms toggles the mode; entering
\* ambient mode it enables the sensor and sets ambientColor to adjustedColor;
\* leaving ambient mode it disables the sensor and fades, and when the fade
\* ends currentColor (and the strip) is adjustedColor and adjustIndex is 0
C8_ModeToggle ==
    [][/\ (ReleasedWithin(300, 1000) /\ mode = STATIC) =>
            /\ mode' = AMBIENT /\ tcsOn'
            /\ ambientColor' = adjustedColor
            /\ pc' = "ambientLoop"
       /\ (ReleasedWithin(300, 1000) /\ mode = AMBIENT) =>
            /\ mode' = STATIC /\ ~tcsOn'
            /\ pc' = "fade"
       /\ (pc = "fade" /\ pc' # "fade") =>
            /\ mode' = STATIC /\ ~tcsOn'
            /\ currentColor' = adjustedColor /\ strip' = adjustedColor
            /\ adjustIndex' = 0]_vars

\* ambient mode was left with adjustIndex 1 and a strip that showed another
\* colour than adjustedColor: the fade has ended
C8_Witness ==
    /\ ev.kind = "released" /\ mode = STATIC /\ pc = "ambientLoop"
    /\ ev.held >= 300 /\ ev.held < 1000
    /\ currentColor = adjustedColor /\ adjustIndex = 0 /\ ~tcsOn
    /\ ambientColor # adjustedColor

\* C9: while the mode is static and stays static, no step of loop() reads
\* the sensor or restarts the decay timer, or changes ambientColor,
\* ambientLuminance, a filter or maxClear; the sensor is off; and the call
\* of ambientLoop changes nothing at all, the strip included
C9_StaticGatesEstimator ==
    [][(pc # "setup" /\ mode = STATIC /\ mode' = STATIC) =>
         /\ UNCHANGED <<sample, ambientColor, ambientLuminance, filt,
                        maxClear, intPending, colorRead>>
         /\ dynElapsed' >= dynElapsed
         /\ ~tcsOn /\ ~tcsOn'
         /\ pc = "ambientLoop" =>
               UNCHANGED <<currentColor, strip, dynElapsed>>]_vars

\* ambientLoop is about to be called in static mode, after ambient mode
\* has left an estimate other than the colour shown
C9_Witness ==
    /\ pc = "ambientLoop" /\ mode = STATIC
    /\ nSamples > 0 /\ ambientColor # currentColor

\* C10: a hold step changes exactly one of brightness, hue and saturation,
\* by one step, and leaves the other two, the mode and adjustIndex
\* unchanged: brightness in ambient mode, and in static mode brightness,
\* hue, saturation for adjustIndex 0, 1, 2
C10_HoldStepChangesOne ==
    [][Sweeps =>
         LET down(x, top) == IF x = 0 THEN top ELSE x - 1
             up(x, top) == IF x = top THEN 0 ELSE x + 1
         IN  /\ UNCHANGED <<mode, adjustIndex>>
             /\ IF mode = AMBIENT \/ adjustIndex = 0
                THEN /\ brightness' = down(brightness, 255)
                     /\ UNCHANGED <<hue, sat>>
                ELSE IF adjustIndex = 1
                THEN /\ hue' = up(hue, 359)
                     /\ UNCHANGED <<brightness, sat>>
                ELSE /\ adjustIndex = 2
                     /\ sat' = down(sat, 100)
                     /\ UNCHANGED <<brightness, hue>>]_vars

\* a hold step in ambient mode, adjustIndex being 1, has lowered brightness
C10_Witness ==
    /\ pc = "delay" /\ mode = AMBIENT /\ adjustIndex = 1
    /\ brightness < InitBrightness /\ hue = InitHue /\ sat = InitSat
    /\ inputState = LOW /\ ~changed

\* the parameter a hold step changes, and the number of its values
SweptRange == IF mode = AMBIENT \/ adjustIndex = 0 THEN 255
              ELSE IF adjustIndex = 1 THEN 359 ELSE 100

\* C11: brightness stays in 0..255, hue in 0..359 and saturation in 0..100;
\* a hold step takes brightness or saturation down by 1, from 0 to 255 and
\* to 100, or hue up by 1, from 359 to 0
C11_ParameterRanges ==
    [][/\ brightness \in 0..255 /\ brightness' \in 0..255
       /\ hue \in 0..359 /\ hue' \in 0..359
       /\ sat \in 0..100 /\ sat' \in 0..100
       /\ Sweeps =>
            \/ brightness' = (IF brightness = 0 THEN 255 ELSE brightness - 1)
                 /\ UNCHANGED <<hue, sat>>
            \/ hue' = (IF hue = 359 THEN 0 ELSE hue + 1)
                 /\ UNCHANGED <<brightness, sat>>
            \/ sat' = (IF sat = 0 THEN 100 ELSE sat - 1)
                 /\ UNCHANGED <<brightness, hue>>]_vars

\* the hold step after brightness reached 0 has wrapped it to 255
C11_Witness ==
    /\ pc = "delay" /\ brightness = 255
    /\ nSweep = InitBrightness + 1

\* C12: in static mode with the hue selected, a hold that starts at hue 256
\* is at hue (256 + n) mod 360 after n steps, so its first 360 steps visit
\* every hue once; after 360 steps the hue is 256 again, brightness and
\* saturation never changed, and the colour shown is the colour shown
\* before the hold, which is the colour setup() shows up to 1 per channel
C12_HueSweepReturns ==
    (mode = STATIC /\ adjustIndex = 1) =>
        /\ hue = (256 + nSweep) % 360
        /\ brightness = 192 /\ sat = 66
        /\ strip = adjustedColor
        /\ nSweep = 360 =>
              /\ hue = 256
              /\ adjustedColor = HoldColor(256, 66, 192)
              /\ \A ch \in {"r", "g", "b"} :
                    /\ adjustedColor[ch] - InitColor(256, 66, 192)[ch] \in -1..1

\* the 360th step of the hold has been taken
C12_Witness ==
    /\ mode = STATIC /\ adjustIndex = 1 /\ nSweep = 360
    /\ pc = "delay" /\ hue = InitHue

\* C13 as stated: after the step that brings the swept parameter back to
\* its starting value, the delays of the hold add up to sweepSeconds within
\* one step's delay
C13_TraversalWithinOneStep ==
    (pc = "delay" /\ nSweep = SweptRange + 1) =>
        /\ nSweep * timer - 1000 * 16 =< timer
        /\ 1000 * 16 - nSweep * timer =< timer

\* C13: the delay after a hold step is 1000 / (range / sweepSeconds) cut to
\* whole milliseconds, 62, 44 and 160 for the ranges 255, 359 and 100, so
\* shorter for a larger range; after the step that brings the swept
\* parameter back to its starting value the delays add up to sweepSeconds
\* within 160 ms (one per cent)
C13_SweepDelay ==
    pc = "delay" =>
        /\ timer = (IF SweptRange = 255 THEN 62
                    ELSE IF SweptRange = 359 THEN 44 ELSE 160)
        /\ nSweep = SweptRange + 1 =>
              /\ nSweep * timer - 1000 * 16 =< 160
              /\ 1000 * 16 - nSweep * timer =< 160

\* the hue has been swept through all its values: 360 delays of 44 ms
C13_Witness ==
    /\ pc = "delay" /\ SweptRange = 359 /\ nSweep = 360
    /\ hue = InitHue /\ nSweep * timer = 15840

\* C14: maxClear is at least 1; it rises only to the clear value of a
\* sample that has just passed the noise gate, and falls only by 1, only
\* while the last raw clear is below it and only when more than 2000 ms
\* have passed on the decay clock, which restarts at every fall and at no
\* other moment than a decay test that succeeded
C14_MaxClearTracker ==
    [][/\ maxClear >= 1 /\ maxClear' >= 1
       /\ maxClear' > maxClear =>
            /\ pc = "ambientClear" /\ Valid(sample)
            /\ maxClear' = sample.clear
       /\ maxClear' < maxClear =>
            /\ maxClear' = maxClear - 1
            /\ sample.clear < maxClear /\ sample' = sample
            /\ dynElapsed > 2000 /\ dynElapsed' = 0
       /\ dynElapsed' < dynElapsed =>
            /\ dynElapsed' = 0 /\ dynElapsed > 2000
            /\ sample.clear < maxClear]_vars

\* maxClear rose to 7 and has fallen twice, to the clear value of the
\* last sample
C14_Witness ==
    /\ maxClear = 5 /\ sample.clear = 5 /\ dynElapsed = 0
    /\ mode = AMBIENT /\ nSamples >= 2

\* the colour the blend of line 437 is heading for; it changes only when a
\* sample is processed or the brightness is adjusted
AmbientTarget == Target(filt, Dyn(brightness, filt.c))

\* C15: when a blend tick leaves ambientColor as it is, ambientColor is the
\* target: with the target at rest the blend ticks do not come to rest
\* anywhere else
C15_BlendRestsOnlyAtTarget ==
    (mode = AMBIENT /\ pc = "buttonLoop" /\ ~colorRead
       /\ Blend(ambientColor, AmbientTarget) = ambientColor)
        => ambientColor = AmbientTarget

\* C16: until the sensor has been found the strip has been given no colour
\* but (0,0,0); when it is not found the sketch halts with the mode at its
\* initial value and the sensor off, and from then on it stays halted and
\* changes neither the strip, the colours, the mode, the sensor switch, the
\* flags, the debounced button state nor any parameter, whatever the button
\* does
C16_HaltIsPermanent ==
    [][/\ pc = "setup" => strip = Black /\ strip' \in {Black, currentColor'}
       /\ pc' = "halted" =>
            /\ strip' = Black /\ currentColor' = Black
            /\ mode' = STATIC /\ ~tcsOn' /\ ~intPending' /\ ~colorRead'
       /\ pc = "halted" =>
            /\ pc' = "halted"
            /\ UNCHANGED <<strip, currentColor, adjustedColor, ambientColor,
                           mode, adjustIndex, hue, sat, brightness, tcsOn,
                           intPending, colorRead, lastReading, inputState,
                           changed, ev, sample, maxClear, ambientLuminance,
                           filt, cor>>]_vars

\* halted, with the button held down for longer than the debounce delay
C16_Witness ==
    /\ pc = "halted" /\ raw = LOW /\ rawElapsed > debounceDelay
    /\ inputState = HIGH

\* C17: when setup() finds the sensor, the mode it leaves is static if the
\* button is up when sampled and ambient if it is down, the sensor is
\* enabled exactly in ambient mode, and adjustIndex is 0
C17_BootMode ==
    [][(pc = "setup" /\ pc' = "buttonLoop") =>
          /\ mode' = (IF raw = LOW THEN AMBIENT ELSE STATIC)
          /\ tcsOn' = (mode' = AMBIENT)
          /\ adjustIndex' = 0]_vars

\* setup() has just returned after sampling the button down
C17_Witness ==
    /\ pc = "buttonLoop" /\ mode = AMBIENT /\ tcsOn /\ raw = LOW
    /\ lastReading = HIGH /\ inputState = HIGH
    /\ dynElapsed = StartupMillis /\ nSamples = 0
    /\ currentColor = FluorescentFlicker(Black, adjustedColor)

\* C18: while the sensor is enabled and holds its interrupt line down, that
\* is, a notification has not been serviced by a read and an interrupt
\* clear, the ready flag is set
C18_NotificationKept == (tcsOn /\ intPending) => colorRead

\* C19: the step in which the sensor raises its notification sets the ready
\* flag and leaves the position of the poll loop, the raw sample, the
\* tracker, the filters, the colours, the strip, the mode, the parameters
\* and the state of the press as they are; the raw sample changes only in
\* the poll loop
C19_HandlerSetsFlagOnly ==
    [][/\ (intPending' /\ ~intPending) =>
            /\ colorRead'
            /\ UNCHANGED <<pc, sample, maxClear, ambientLuminance, filt,
                           cor, currentColor, adjustedColor, ambientColor,
                           strip, mode, adjustIndex, hue, sat, brightness,
                           changed, lastReading, inputState, pushElapsed,
                           debounceElapsed, dynElapsed, tcsOn, timer>>
       /\ sample' # sample => pc = "ambientLoop" /\ colorRead]_vars

\* a notification was raised between the interrupt clear of line 385 and
\* the assignment of line 386
C19_Witness ==
    /\ pc = "ambientClear" /\ intPending /\ colorRead
    /\ sample # NoSample /\ nSamples >= 2

\* the channels of colour c that have the value x
ChannelsAt(c, x) == {ch \in {"r", "g", "b"} : c[ch] = x}

IsColor(c) == \A ch \in {"r", "g", "b"} : c[ch] \in 0..255

\* C20 as stated: at a hue of k/6 with s = v = 1 one channel is 255, no
\* other is, and a channel is 0
C20_OneChannelFull ==
    hue % 60 = 0 =>
        /\ Cardinality(ChannelsAt(InitColor(hue, 100, 255), 255)) = 1
        /\ ChannelsAt(InitColor(hue, 100, 255), 0) # {}

\* C20: every channel of hsv1_to_rgb255(h, s, v) is in 0..255, for h given
\* as hue/359 and as hue/360; at h = k/6 with s = v = 1 every channel is 0
\* or 255: one channel is 255 and two are 0 for even k, two are 255 and one
\* is 0 for odd k
C20_HsvChannels ==
    /\ IsColor(HoldColor(hue, sat, brightness))
    /\ IsColor(InitColor(hue, sat, brightness))
    /\ IsColor(adjustedColor) /\ IsColor(strip)
    /\ hue % 60 = 0 =>
          LET c == InitColor(hue, 100, 255)
              full == IF (hue \div 60) % 2 = 0 THEN 1 ELSE 2
          IN  /\ Cardinality(ChannelsAt(c, 255)) = full
              /\ Cardinality(ChannelsAt(c, 0)) = 3 - full

\* a hold step has shown the colour of hue 60 at full saturation and
\* brightness
C20_Witness ==
    /\ pc = "delay" /\ hue = 60 /\ sat = 100 /\ brightness = 255
    /\ strip = HoldColor(60, 100, 255)
    /\ InitColor(hue, sat, brightness) = RGB(255, 255, 0)

\* C21: the colour last written to the strip is currentColor, in every
\* state: applyColorRGB sets currentColor and writes the strip together
C21_ShownIsCurrent == strip = currentColor

\* a hold step in static mode has applied the colour of the new parameters
C21_Witness ==
    /\ pc = "delay" /\ mode = STATIC /\ nSweep >= 1
    /\ strip = HoldColor(hue, sat, brightness) /\ strip # Black

\* the step counts fadeToRGB is called with (lines 343, 344, 361, 499-505)
\* and the counts 0, 1 and 2
FadeStepCounts == {0, 1, 2, 10, 20, 100}

\* x lies between a and b
Between(x, a, b) == (a =< x /\ x =< b) \/ (b =< x /\ x =< a)

\* C22: a fade of steps >= 1 steps from currentColor to adjustedColor hands
\* exactly steps colours to applyColorRGB, each channel of each of them
\* lying between the value applied before it (the start value for the
\* first) and the target's, and the last of them is the target, with and
\* without quadratic easing; a fade of 0 steps leaves the colour as it is;
\* the fade of line 361 ends with currentColor = adjustedColor
C22_FadeReachesTarget ==
    [][pc = "fade" =>
          /\ \A steps \in FadeStepCounts, q \in BOOLEAN :
                LET path == FadePath(currentColor, adjustedColor, steps, q)
                IN  /\ Len(path) = steps + 1
                    /\ path[1] = currentColor
                    /\ \A i \in 2..(steps + 1) : \A ch \in {"r", "g", "b"} :
                          /\ Between(path[i][ch], path[i - 1][ch],
                                     adjustedColor[ch])
                          /\ Between(path[i][ch], currentColor[ch],
                                     adjustedColor[ch])
                    /\ steps >= 1 => path[steps + 1] = adjustedColor
                    /\ FadeToRGB(currentColor, adjustedColor, steps, q)
                          = path[steps + 1]
          /\ pc' # "fade" =>
                currentColor' = adjustedColor /\ strip' = adjustedColor]_vars

\* the fade from (255, 0, 0) has ended at the static colour of the initial
\* parameters
C22_Witness ==
    /\ pc = "ambientLoop" /\ mode = STATIC /\ ambientColor = RGB(255, 0, 0)
    /\ currentColor = adjustedColor /\ adjustedColor # ambientColor
    /\ hue = InitHue /\ sat = InitSat /\ brightness = InitBrightness

\* C23: in the poll that processes a fresh sample, the sample counts as
\* valid exactly when clear > 0 and red, green and blue > 1. A valid sample
\* raises maxClear to its clear if that is larger and pushes the corrected
\* ratios r, g, b, their luminance and clear / maxClear into the five
\* filters; an invalid one leaves maxClear (up to the decay of the same
\* poll) and the clear filter as they are, moves ambientLuminance a
\* thousandth of the way to brightness / 255 and pushes that value into the
\* r, g and b filters
C23_NoiseGate ==
    [][(pc = "ambientClear" /\ pc' # "ambientClear") =>
          IF sample.clear > 0 /\ sample.red > 1 /\ sample.green > 1
               /\ sample.blue > 1
          THEN LET mc == Max(maxClear, sample.clear)
                   r == Clamp((sample.red * cor.r) \div sample.clear, 0, Scale)
                   g == Clamp((sample.green * cor.g) \div sample.clear, 0,
                              Scale)
                   b == Clamp((sample.blue * cor.b) \div sample.clear, 0,
                              Scale)
               IN  /\ maxClear' \in {mc, Max(mc - 1, 1)}
                   /\ maxClear' >= sample.clear
                   /\ filt'.r = LowPass(filt.r, r)
                   /\ filt'.g = LowPass(filt.g, g)
                   /\ filt'.b = LowPass(filt.b, b)
                   /\ filt'.c = LowPass(filt.c, (Scale * sample.clear) \div mc)
                   /\ filt'.lum = LowPass(filt.lum,
                          (2126 * r + 7152 * g + 722 * b) \div 10000)
                   /\ ambientLuminance' = filt'.lum
          ELSE /\ maxClear' \in {maxClear, Max(maxClear - 1, 1)}
               /\ maxClear' # maxClear =>
                     sample.clear < maxClear /\ dynElapsed > 2000
               /\ filt'.c = filt.c /\ filt'.lum = filt.lum
               /\ Between(ambientLuminance', ambientLuminance,
                          Ceiling(brightness))
               /\ ambientLuminance' = ambientLuminance
                     + TruncDiv(Ceiling(brightness) - ambientLuminance, 1000)
               /\ filt'.r = LowPass(filt.r, ambientLuminance')
               /\ filt'.g = LowPass(filt.g, ambientLuminance')
               /\ filt'.b = LowPass(filt.b, ambientLuminance')]_vars

\* a valid sample has raised maxClear to 7, and an invalid one has been
\* processed after it
C23_Witness ==
    /\ pc = "buttonLoop" /\ mode = AMBIENT /\ ~colorRead /\ nSamples >= 2
    /\ maxClear = 7 /\ sample.red = 1 /\ filt.c > 0

\* C24: in ambient mode the brightness factor dyn does not exceed the
\* ceiling brightness / 255, and no channel of the ambient target exceeds
\* the brightness
C24_DynBelowCeiling ==
    (mode = AMBIENT /\ pc = "buttonLoop") =>
        /\ Dyn(brightness, filt.c) =< Ceiling(brightness)
        /\ \A ch \in {"r", "g", "b"} : AmbientTarget[ch] =< brightness

\* C25: ambientLoop finds the ready flag set only over a notification the
\* sensor still holds, so the read that follows consumes a sample not yet
\* read; the raw sample changes only in that read, and the poll that
\* processes it clears the flag; a poll of ambient mode that finds the flag
\* clear leaves the sample, the filters, ambientLuminance and the sensor as
\* they are and changes maxClear by the decay only
C25_SampleReadOnce ==
    [][/\ (pc = "ambientLoop" /\ colorRead) => intPending
       /\ sample' # sample =>
            /\ pc = "ambientLoop" /\ colorRead /\ mode = AMBIENT
            /\ pc' = "ambientClear" /\ ~intPending'
       /\ (pc = "ambientClear" /\ pc' # "ambientClear") => ~colorRead'
       /\ (pc = "ambientLoop" /\ pc' # "ambientLoop" /\ ~colorRead) =>
            /\ UNCHANGED <<sample, filt, ambientLuminance, intPending,
                           colorRead>>
            /\ maxClear' \in {maxClear, Max(maxClear - 1, 1)}
            /\ mode = AMBIENT =>
                  ambientColor' = Blend(ambientColor, AmbientTarget)]_vars

\* after the valid sample was processed, polls that found the flag clear
\* have brought the blend to rest
C25_Witness ==
    /\ pc = "buttonLoop" /\ mode = AMBIENT /\ nSamples >= 1
    /\ ~colorRead /\ ~intPending /\ sample.clear = 7 /\ maxClear = 7
    /\ Blend(ambientColor, AmbientTarget) = ambientColor

\* C26: a release after less than 300 ms in static mode starts the feedback
\* of adjustIndex + 1 cycles for the new adjustIndex, 1, 2 or 3 of them,
\* 130 ms each; a cycle fades to the inverse of adjustedColor and back, and
\* when the feedback ends the strip shows adjustedColor. In ambient mode
\* such a release starts no feedback and leaves the strip and adjustIndex
\* as they are
C26_BlinkFeedback ==
    [][/\ (Released /\ pushElapsed < 300) =>
            IF mode = STATIC
            THEN /\ pc' = "blink"
                 /\ adjustIndex' + 1 \in 1..3
                 /\ timer' = (adjustIndex' + 1) * (10 * 8 + 10 * 5)
            ELSE /\ pc' # "blink"
                 /\ UNCHANGED <<strip, currentColor, adjustIndex>>
       /\ pc' = "blink" => (Released /\ pushElapsed < 300) \/ pc = "blink"
       /\ (pc = "blink" /\ pc' # "blink") =>
            LET inv == Inverse(adjustedColor)
            IN  /\ FadeToRGB(currentColor, inv, 10, FALSE) = inv
                /\ FadeToRGB(inv, adjustedColor, 10, FALSE) = adjustedColor
                /\ currentColor' = adjustedColor /\ strip' = adjustedColor
                /\ UNCHANGED <<adjustIndex, adjustedColor, mode>>]_vars

\* the feedback of three cycles has ended
C26_Witness ==
    /\ pc = "ambientLoop" /\ timer = 0 /\ mode = STATIC
    /\ ev.kind = "released" /\ ev.held < 300
    /\ adjustIndex = 2 /\ strip = adjustedColor

\* C27: after every hold step the hue handed to hsv1_to_rgb255, hue divided
\* by HoldHueDivisor, is below 1, and saturation / 100 and brightness / 255
\* are at most 1
C27_HueBelowOne ==
    pc = "delay" =>
        /\ hue < HoldHueDivisor
        /\ sat =< 100 /\ brightness =< 255

\* C28: at every poll boundary adjustedColor is the colour a hold step
\* computes from the current hue, sat and brightness
C28_StaticColorOfParameters ==
    pc = "buttonLoop" => adjustedColor = HoldColor(hue, sat, brightness)

\* C29: at every poll boundary the strip shows adjustedColor in static mode
\* and ambientColor in ambient mode
C29_StripShowsModeColor ==
    pc = "buttonLoop" =>
        /\ currentColor = (IF mode = STATIC THEN adjustedColor
                           ELSE ambientColor)
        /\ strip = currentColor

\* the mode was toggled to ambient and back, and the fade has brought the
\* strip to the static colour again
C29_Witness ==
    /\ pc = "buttonLoop" /\ mode = STATIC /\ nSamples >= 1
    /\ sample # NoSample /\ strip = adjustedColor
    /\ ambientColor # adjustedColor

\* C30: at every poll boundary the sensor is enabled exactly in ambient
\* mode, and in static mode the ready flag is clear and the sensor holds no
\* notification
C30_SensorFollowsMode ==
    pc = "buttonLoop" =>
        /\ tcsOn <=> mode = AMBIENT
        /\ mode = STATIC => ~colorRead /\ ~intPending

\* the mode was toggled back to static after the sensor had raised a
\* notification
C30_Witness ==
    /\ pc = "buttonLoop" /\ mode = STATIC /\ ~tcsOn /\ ~colorRead
    /\ nSamples >= 1 /\ ev = NoEv /\ inputState = HIGH

\* line 436: a channel of the target as a number, before its conversion to
\* byte, for the filter output y
TargetChannel(y) ==
    (((y * Dyn(brightness, filt.c)) \div Scale) * 255) \div Scale

\* C31: the outputs of the r, g, b, clear and luminance filters and
\* ambientLuminance are in [0,1], the clear ratio of the last sample is at
\* most 1, and every channel of the ambient target is in 0..255 before it
\* is converted to a byte
C31_FiltersInUnitRange ==
    /\ \A k \in {"r", "g", "b", "c", "lum"} : filt[k] \in 0..Scale
    /\ ambientLuminance \in 0..Scale
    /\ (pc = "buttonLoop" /\ Valid(sample)) => sample.clear =< maxClear
    /\ Dyn(brightness, filt.c) \in 0..Scale
    /\ \A k \in {"r", "g", "b"} :
          /\ TargetChannel(filt[k]) \in 0..255
          /\ AmbientTarget[k] = TargetChannel(filt[k])

\* a valid sample has been pushed into the filters
C31_Witness ==
    /\ pc = "buttonLoop" /\ mode = AMBIENT /\ filt.c > 0
    /\ sample.clear = 7 /\ maxClear = sample.clear
    /\ AmbientTarget # Black

\* C32: while a blocking operation is in progress the debouncer
\* (lastReading, inputState, its timer), pushTime, the mode and adjustIndex
\* stay as they are, whatever the button does; the operation returns
\* without reading the button; and a poll that finds the button up, as it
\* was read and debounced before the operation, commits nothing and runs
\* no press action
C32_BlockedInputUnsampled ==
    [][/\ (pc \in Blocking /\ pc' = pc) =>
            /\ UNCHANGED <<lastReading, inputState, changed, mode,
                           adjustIndex, paramVars, ev>>
            /\ debounceElapsed' >= debounceElapsed
            /\ pushElapsed' >= pushElapsed
       /\ (pc \in Blocking /\ pc' # pc) =>
            /\ UNCHANGED <<lastReading, inputState, raw>>
            /\ debounceElapsed' >= debounceElapsed
       /\ (pc \in {"blink", "fade"} /\ pc' # pc) =>
            /\ UNCHANGED mode /\ pushElapsed' >= pushElapsed
            /\ adjustIndex' = (IF pc = "fade" THEN 0 ELSE adjustIndex)
       /\ (Poll /\ raw = HIGH /\ lastReading = HIGH /\ inputState = HIGH) =>
            /\ UNCHANGED <<inputState, mode, adjustIndex, paramVars, strip>>
            /\ ev'.kind = "none" /\ pc' = "ambientLoop"
            /\ pushElapsed' = pushElapsed]_vars

\* the button was pressed and let go inside the fade of line 361, which
\* started with the button up, and the fade is still in progress
C32_Witness ==
    /\ pc = "fade" /\ timer < FadeMillis /\ timer > 0
    /\ raw = HIGH /\ rawElapsed = 0
    /\ lastReading = HIGH /\ inputState = HIGH /\ mode = STATIC

\* C33: once startup has succeeded the sketch never halts; a change of the
\* button or a notification of the sensor leaves the sketch where it is; while a
\* pass of loop() is under way the sketch can always take a step (for the
\* toggle fade, whose 100 steps C22 follows, this is not evaluated), and each
\* step either leaves less of the pass (a blocking operation returns into
\* ambientLoop, ambientLoop returns to the poll) or less time of a blocking
\* operation, whose time is bounded; and a poll that the bound on hold
\* steps does not cut off can always be taken
C33_AlwaysReturnsToPolling ==
    [][/\ pc \notin {"setup", "halted"} => pc' \notin {"setup", "halted"}
       /\ pc \in Blocking => timer \in 1..FadeMillis
       /\ (pc \notin {"setup", "halted", "buttonLoop", "fade"}) =>
             ENABLED Runs
       /\ (pc \notin {"setup", "halted", "buttonLoop"}) =>
             /\ \/ Rank(pc') < Rank(pc)
                \/ pc' = pc /\ timer' < timer
                \/ /\ pc' = pc /\ timer' = timer
                   /\ raw' # raw \/ nSamples' = nSamples + 1
       /\ (pc = "buttonLoop" /\ nSweep < MaxSweep) =>
             ENABLED ButtonLoop]_vars

\* the toggle fade is in progress, part of its time has passed, the button
\* went down in it, and the sensor had raised a notification before
C33_Witness ==
    /\ pc = "fade" /\ timer \in 1..(FadeMillis - 1)
    /\ raw = LOW /\ nSamples >= 1 /\ mode = STATIC

\* sum of the sequence s
RECURSIVE SumSeq(_)
SumSeq(s) == IF s = <<>> THEN 0 ELSE Head(s) + SumSeq(Tail(s))

\* the last n elements of the sequence s
LastOf(s, n) == SubSeq(s, Len(s) - n + 1, Len(s))

\* C34: after every addValue mmSum is the sum of the buffer's values,
\* mmIndex is in 0..windowSize-1 (the number of values added, modulo
\* windowSize), mmSize is min(number added, windowSize), and the mean
\* returned is the sum of the last mmSize values added over mmSize
C34_MovingMeanInvariant ==
    LET m == movingMean
        n == Len(added)
    IN  /\ m.mmSum = SumSeq([i \in 1..windowSize |-> m.mmValues[i - 1]])
        /\ m.mmIndex \in 0..(windowSize - 1)
        /\ m.mmIndex = n % windowSize
        /\ m.mmSize = Min(n, windowSize)
        /\ n > 0 =>
              /\ m.mean.den = m.mmSize
              /\ m.mean.num = SumSeq(LastOf(added, m.mmSize))
              /\ m.mmValues[(m.mmIndex + windowSize - 1) % windowSize]
                     = added[n]

\* the buffer has wrapped: a value was replaced by a different one
C34_Witness ==
    /\ Len(added) = windowSize + 2
    /\ added[1] # added[windowSize + 1]
    /\ movingMean.mmIndex = 2 /\ movingMean.mmSize = windowSize

\* the averages avgR, avgG, avgB in hundredths, by channel
Avg == [r |-> AvgR, g |-> AvgG, b |-> AvgB]

\* C35: no step after setup changes the correction factors, and in every
\* state after a successful startup each factor times its average is the
\* mean of the three averages, to the resolution of the fixed-point
\* factor (the factor is the quotient rounded down to 1 / Scale)
C35_CorrectionFixed ==
    [][/\ pc # "setup" => cor' = cor
       /\ pc' \notin {"setup", "halted"} =>
             \A k \in {"r", "g", "b"} :
                LET mean3 == Scale * (AvgR + AvgG + AvgB)
                IN  /\ 3 * Avg[k] * cor'[k] =< mean3
                    /\ mean3 < 3 * Avg[k] * (cor'[k] + 1)]_vars

\* ambient mode has processed a sample with the factors of startup
C35_Witness ==
    /\ pc = "buttonLoop" /\ mode = AMBIENT /\ nSamples >= 1 /\ ~colorRead
    /\ sample # NoSample
    /\ cor.r > Scale /\ cor.b < Scale

\* the fraction f is a number in [0,1]
InUnit(f) == f.den > 0 /\ f.num >= 0 /\ f.num =< f.den

\* C36: rgb2hsv leaves a hue of exactly 0 for arguments whose largest and
\* smallest differ by less than epsilon, black included, and always leaves
\* h, s and v defined and in [0,1]
C36_AchromaticHueZero ==
    hsvOut.called =>
        LET spread == Max(Max(rgbIn[1], rgbIn[2]), rgbIn[3])
                        - Min(Min(rgbIn[1], rgbIn[2]), rgbIn[3])
        IN  /\ InUnit(hsvOut.h) /\ InUnit(hsvOut.s) /\ InUnit(hsvOut.v)
            /\ spread < Epsilon => hsvOut.h.num = 0
            /\ rgbIn = <<0, 0, 0>> =>
                  hsvOut.s.num = 0 /\ hsvOut.v.num = 0

\* a call with channels that differ by less than epsilon, which leaves a
\* saturation above 0
C36_Witness ==
    /\ hsvOut.called /\ rgbIn = <<9995, 10000, 9995>>
    /\ hsvOut.h.num = 0 /\ hsvOut.s.num > 0

====
